---- MODULE Spec2Model ----
(***************************************************************************)
(* Model of the REST long-poll transport of jarust                         *)
(* (jarust_transport/src/interface/restful_interface.rs).                  *)
(*                                                                         *)
(* Every method of RestfulInterface is an action (split at its await       *)
(* points), every long-poll task spawned by attach is a process, and the   *)
(* Janus server is the environment: it answers every HTTP request with any *)
(* reply of the Janus vocabulary, with a network error, or not at all.     *)
(***************************************************************************)
EXTENDS Integers, Sequences, FiniteSets, TLC

VARIABLES
    apisecret,            \* Shared.apisecret: Option<String>, <<>> or <<secret>>
    txgen,                \* number of calls made to Shared.transaction_generator
    alive,                \* TRUE until the last RestfulInterface clone is dropped
    tasks,                \* Exclusive.tasks: Vec<JaTask>, as indices into task
    router,               \* Exclusive.router: the subroutes it holds
    transaction_manager,  \* Exclusive.transaction_manager: its entries
    rsp_map,              \* Shared.rsp_map: its entries
    pc,                   \* per caller: where its current call is suspended
    call,                 \* per caller: the call it made and the request it emitted
    result,               \* per caller: what the call returned
    task,                 \* every task spawned by attach, in spawn order
    nops                  \* number of calls started so far

vars == <<apisecret, txgen, alive, tasks, router, transaction_manager, rsp_map,
          pc, call, result, task, nops>>

-----------------------------------------------------------------------------
(* Bounds of the model *)

\* total number of calls the callers start
MaxOps == 2
\* total number of events the server hands out to long-poll GETs
MaxEvents == 3

\* concurrent callers, each holding a clone of the interface: caller 1 calls
\* any method, caller 2 attaches handles meanwhile
Callers == {1, 2}
General == {1}
\* session ids callers pass (server-issued u64 values)
Sessions == {1, 2}
\* handle ids callers address messages to
Handles == {11}
\* the n-th handle id the server issues
HandleId(n) == 10 + n
\* caller timeouts, in milliseconds
Timeouts == {50}
\* message bodies, plugin ids, establishment payloads, api secrets
Bodies == {"b1"}
Plugins == {"janus.plugin.echotest"}
Protocols == {[kind |-> "JSEP", payload |-> "offer-sdp"],
              [kind |-> "RTP", payload |-> "rtp-params"]}
Secrets == {<<>>, <<"s3cr3t">>}
\* conn_params.capacity: the bound of the response cache and of the
\* transaction manager
Capacities == {1, 32}
\* server-reported errors
Errors == {[code |-> 458, reason |-> "No such session"]}

-----------------------------------------------------------------------------
(* JSON objects: functions from keys to values *)

EmptyObj == [k \in {} |-> ""]

\* request[k] = v on a serde_json::Value object
SetKey(obj, k, v) == [x \in (DOMAIN obj) \cup {k} |-> IF x = k THEN v ELSE obj[x]]

\* removal of a key from an object
RemoveKey(obj, k) == [x \in (DOMAIN obj) \ {k} |-> obj[x]]

\* the token the generator returns on its n-th call
Token(n) == "T" \o ToString(n)

-----------------------------------------------------------------------------
(* JaResponse *)

(* janus is the discriminant; proto tells the two Success variants apart  *)
(* ("data" for Success{data{id}}, "plugin" for Success{plugindata}).       *)
Rsp(janus, proto, transaction, id, code, reason, sender) ==
    [janus |-> janus, proto |-> proto, transaction |-> transaction, id |-> id,
     code |-> code, reason |-> reason, sender |-> sender]

NoRsp == Rsp("none", "", "", 0, 0, "", 0)

\* the long-poll events of a handle
Ev(janus, sender) == Rsp(janus, "", "", 0, 0, "", sender)

-----------------------------------------------------------------------------
(* JaTransportResult *)

Res(ok, err, code, reason, id, rsp) ==
    [ok |-> ok, err |-> err, code |-> code, reason |-> reason, id |-> id, rsp |-> rsp]

NoRes == Res(FALSE, "pending", 0, "", 0, NoRsp)
OkUnit == Res(TRUE, "", 0, "", 0, NoRsp)
OkId(id) == Res(TRUE, "", 0, "", id, NoRsp)
OkRsp(rsp) == Res(TRUE, "", 0, "", 0, rsp)
Err(what) == Res(FALSE, what, 0, "", 0, NoRsp)
JanusError(code, reason) == Res(FALSE, "JanusError", code, reason, 0, NoRsp)

-----------------------------------------------------------------------------
(* Requests *)

Url(path, sid, hid, maxev) == [path |-> path, sid |-> sid, hid |-> hid, maxev |-> maxev]

NoCall ==
    [op |-> "none", sid |-> 0, hid |-> 0, timeout |-> 0, armed |-> FALSE,
     method |-> "", url |-> Url("", 0, 0, 0),
     json |-> EmptyObj, request |-> EmptyObj, tx |-> "", reply |-> NoRsp, tid |-> 0]

\* TransactionGenerator::generate_transaction: the next token
generate_transaction == Token(txgen + 1)

\* decorate_request stamping the token of the previous generator call
decorate_request_stale(request) ==
    LET transaction == Token(txgen)
        secreted == IF apisecret # <<>>
                    THEN SetKey(request, "apisecret", apisecret[1])
                    ELSE request
    IN  <<SetKey(secreted, "transaction", transaction), transaction>>

\* decorate_request setting apisecret to the empty string when none is configured
decorate_request_blank_secret(request) ==
    LET transaction == generate_transaction
        secreted == SetKey(request, "apisecret",
                           IF apisecret # <<>> THEN apisecret[1] ELSE "")
    IN  <<SetKey(secreted, "transaction", transaction), transaction>>

\* decorate_request never setting apisecret
decorate_request_unsecreted(request) ==
    LET transaction == generate_transaction
    IN  <<SetKey(request, "transaction", transaction), transaction>>

\* RestfulInterface::decorate_request: the stamped request and its transaction
decorate_request(request) ==
    LET transaction == generate_transaction
        secreted == IF apisecret # <<>>
                    THEN SetKey(request, "apisecret", apisecret[1])
                    ELSE request
    IN  <<SetKey(secreted, "transaction", transaction), transaction>>

\* json!({"janus": "create"})
create_json == [janus |-> "create"]
\* json!({"janus": "attach", "plugin": plugin_id})
attach_json(plugin_id) == [janus |-> "attach", plugin |-> plugin_id]
\* json!({"janus": "destroy"})
destroy_json == [janus |-> "destroy"]
\* json!({"janus": "message", "body": message.body})
message_json(body) == [janus |-> "message", body |-> body]
\* the message request with both request["jsep"] and request["rtp"] set
message_est_json_both(body, protocol) ==
    SetKey(SetKey(message_json(body), "jsep", protocol.payload), "rtp", protocol.payload)

\* the message request with request["jsep"] or request["rtp"] set
message_est_json(body, protocol) ==
    IF protocol.kind = "JSEP"
    THEN SetKey(message_json(body), "jsep", protocol.payload)
    ELSE SetKey(message_json(body), "rtp", protocol.payload)

-----------------------------------------------------------------------------
(* Reply matching of each operation *)

\* create taking the id of any Success reply
create_match_lenient(response) ==
    IF response.janus = "success"
    THEN OkId(response.id)
    ELSE IF response.janus = "error"
         THEN JanusError(response.code, response.reason)
         ELSE Err("UnexpectedResponse")

\* create: match response.janus (lines 119-134)
create_match(response) ==
    IF response.janus = "success" /\ response.proto = "data"
    THEN OkId(response.id)
    ELSE IF response.janus = "error"
         THEN JanusError(response.code, response.reason)
         ELSE Err("UnexpectedResponse")

\* server_info: match response.janus (lines 149-156)
server_info_match(response) ==
    IF response.janus = "server_info"
    THEN OkRsp(response)
    ELSE IF response.janus = "error"
         THEN JanusError(response.code, response.reason)
         ELSE Err("IncompletePacket")

\* attach going on after any reply that is no Error
attach_match_lenient(response) ==
    IF response.janus = "error"
    THEN JanusError(response.code, response.reason)
    ELSE OkId(response.id)

\* attach: match response.janus (lines 183-197); Ok carries the handle id
attach_match(response) ==
    IF response.janus = "success" /\ response.proto = "data"
    THEN OkId(response.id)
    ELSE IF response.janus = "error"
         THEN JanusError(response.code, response.reason)
         ELSE Err("UnexpectedResponse")

\* destory; fire_and_forget_msg; fire_and_forget_msg_with_est: the body is not read
destory_ret(response) == OkUnit
fire_and_forget_msg_ret(response) == OkUnit
fire_and_forget_msg_with_est_ret(response) == OkUnit

\* send_msg_waiton_ack returning the reply without its transaction
send_msg_waiton_ack_untagged(response) == OkRsp([response EXCEPT !.transaction = ""])

\* send_msg_waiton_ack: Ok(response)
send_msg_waiton_ack_ret(response) == OkRsp(response)
\* internal_send_msg_waiton_rsp: Ok(response)
internal_send_msg_waiton_rsp_ret(response) == OkRsp(response)
\* send_msg_waiton_ack_with_est: Ok(response)
send_msg_waiton_ack_with_est_ret(response) == OkRsp(response)

\* what the call returns once the HTTP response has arrived
OnResponse(op, response) ==
    CASE op = "create" -> create_match(response)
      [] op = "server_info" -> server_info_match(response)
      [] op = "attach" -> attach_match(response)
      [] op = "destory" -> destory_ret(response)
      [] op = "fire_and_forget_msg" -> fire_and_forget_msg_ret(response)
      [] op = "fire_and_forget_msg_with_est" -> fire_and_forget_msg_with_est_ret(response)
      [] op = "send_msg_waiton_ack" -> send_msg_waiton_ack_ret(response)
      [] op = "internal_send_msg_waiton_rsp" -> internal_send_msg_waiton_rsp_ret(response)
      [] op = "send_msg_waiton_ack_with_est" -> send_msg_waiton_ack_with_est_ret(response)

\* the operations that decode the response body with .json::<JaResponse>()
ReadsBody(op) ==
    op \in {"create", "server_info", "attach", "send_msg_waiton_ack",
            "internal_send_msg_waiton_rsp", "send_msg_waiton_ack_with_est"}

-----------------------------------------------------------------------------
(* The server *)

\* the ids a Success{data{id}} reply to the call may carry
DataIds(op) ==
    IF op = "attach" THEN {HandleId(Len(task) + 1)}
    ELSE IF op = "create" THEN Sessions
    ELSE {0}

(* Every body the server may answer a request with: the replies of the    *)
(* vocabulary echoing the request's transaction (a GET carries none), and  *)
(* an Ack carrying the transaction of some other request.                  *)
ServerReplies(op, tx, hid) ==
    {Rsp("ack", "", tx, 0, 0, "", 0)}
    \cup {Rsp("error", "", tx, 0, e.code, e.reason, 0) : e \in Errors}
    \cup (IF op = "server_info"
          THEN {Rsp("server_info", "", tx, 0, 0, "", 0)}
          ELSE {Rsp("ack", "", "T0", 0, 0, "", 0),
                Rsp("success", "plugin", tx, 0, 0, "", hid)}
               \cup {Rsp("success", "data", tx, id, 0, "", 0) : id \in DataIds(op)})
    \cup {Rsp("event", "", tx, 0, 0, "", hid)}

\* the handles the server has attached in a session
HandlesOf(sid) == {task[t].hid : t \in {u \in DOMAIN task : task[u].sid = sid}}

(* The arrays a long-poll GET of a session may return: events of the       *)
(* handles of that session, at most maxev of them.                         *)
EventArrays(sid) ==
    {<<>>}
    \cup {<<Ev("event", h)>> : h \in HandlesOf(sid)}
    \cup {<<Ev("event", h), Ev("hangup", h)>> : h \in HandlesOf(sid)}

-----------------------------------------------------------------------------
(* Initial state: make_interface *)

Init ==
    /\ apisecret \in Secrets
    /\ txgen = 0
    /\ alive = TRUE
    /\ tasks = <<>>
    /\ router = {}
    /\ transaction_manager = <<>>
    /\ rsp_map = <<>>
    /\ pc = [c \in Callers |-> "idle"]
    /\ call = [c \in Callers |-> NoCall]
    /\ result = [c \in Callers |-> NoRes]
    /\ task = <<>>
    /\ nops = 0

-----------------------------------------------------------------------------
(* Calls: from the entry of the method to its first await *)

(* A call that has returned stays visible (pc = "done") until retire takes *)
(* its record away; the value it returned is a local of its caller, so     *)
(* nothing else depends on it and the record is retired before the next    *)
(* step of any call or task.                                               *)
Returned == \E c \in Callers : pc[c] = "done"

CanCall(c) == ~Returned /\ alive /\ pc[c] = "idle" /\ nops < MaxOps

idle_state == <<router, transaction_manager, rsp_map>>

\* a POST of the decorated request, awaited with .send().await
Post(c, op, sid, hid, timeout, armed, url, json) ==
    LET decorated == decorate_request(json)
    IN  /\ call' = [call EXCEPT ![c] =
                      [op |-> op, sid |-> sid, hid |-> hid, timeout |-> timeout,
                       armed |-> armed, method |-> "POST",
                       url |-> url, json |-> json, request |-> decorated[1],
                       tx |-> decorated[2], reply |-> NoRsp, tid |-> 0]]
        /\ txgen' = txgen + 1
        /\ pc' = [pc EXCEPT ![c] = "send"]
        /\ result' = [result EXCEPT ![c] = NoRes]
        /\ nops' = nops + 1
        /\ UNCHANGED <<apisecret, alive, tasks, idle_state, task>>

create(c, timeout) ==
    /\ CanCall(c)
    /\ Post(c, "create", 0, 0, timeout, TRUE, Url("janus", 0, 0, 0), create_json)

server_info(c, timeout) ==
    /\ CanCall(c)
    /\ call' = [call EXCEPT ![c] =
                  [NoCall EXCEPT !.op = "server_info", !.timeout = timeout,
                                 !.armed = TRUE, !.method = "GET",
                                 !.url = Url("janus/info", 0, 0, 0)]]
    /\ pc' = [pc EXCEPT ![c] = "send"]
    /\ result' = [result EXCEPT ![c] = NoRes]
    /\ nops' = nops + 1
    /\ UNCHANGED <<apisecret, txgen, alive, tasks, idle_state, task>>

attach(c, session_id, plugin_id, timeout) ==
    /\ CanCall(c)
    /\ Post(c, "attach", session_id, 0, timeout, TRUE,
            Url("janus/{sid}", session_id, 0, 0), attach_json(plugin_id))

\* keep_alive posting a keepalive request of the session before it returns
keep_alive_posting(c, session_id, timeout) ==
    LET decorated == decorate_request([janus |-> "keepalive"])
    IN  /\ CanCall(c)
        /\ call' = [call EXCEPT ![c] =
                      [NoCall EXCEPT !.op = "keep_alive", !.sid = session_id,
                                     !.timeout = timeout, !.method = "POST",
                                     !.url = Url("janus/{sid}", session_id, 0, 0),
                                     !.request = decorated[1], !.tx = decorated[2]]]
        /\ txgen' = txgen + 1
        /\ pc' = [pc EXCEPT ![c] = "done"]
        /\ result' = [result EXCEPT ![c] = OkUnit]
        /\ nops' = nops + 1
        /\ UNCHANGED <<apisecret, alive, tasks, idle_state, task>>

\* keep_alive: Ok(()), whatever the session id and the timeout
keep_alive(c, session_id, timeout) ==
    /\ CanCall(c)
    /\ call' = [call EXCEPT ![c] =
                  [NoCall EXCEPT !.op = "keep_alive", !.sid = session_id,
                                 !.timeout = timeout]]
    /\ pc' = [pc EXCEPT ![c] = "done"]
    /\ result' = [result EXCEPT ![c] = OkUnit]
    /\ nops' = nops + 1
    /\ UNCHANGED <<apisecret, txgen, alive, tasks, idle_state, task>>

destory(c, session_id, timeout) ==
    /\ CanCall(c)
    /\ Post(c, "destory", session_id, 0, timeout, TRUE,
            Url("janus/{sid}", session_id, 0, 0), destroy_json)

fire_and_forget_msg(c, message) ==
    /\ CanCall(c)
    /\ Post(c, "fire_and_forget_msg", message.session_id, message.handle_id, 0, FALSE,
            Url("janus/{sid}/{hid}", message.session_id, message.handle_id, 0),
            message_json(message.body))

send_msg_waiton_ack(c, message) ==
    /\ CanCall(c)
    /\ Post(c, "send_msg_waiton_ack", message.session_id, message.handle_id,
            message.timeout, TRUE,
            Url("janus/{sid}/{hid}", message.session_id, message.handle_id, 0),
            message_json(message.body))

internal_send_msg_waiton_rsp(c, message) ==
    /\ CanCall(c)
    /\ Post(c, "internal_send_msg_waiton_rsp", message.session_id, message.handle_id,
            message.timeout, TRUE,
            Url("janus/{sid}/{hid}", message.session_id, message.handle_id, 0),
            message_json(message.body))

fire_and_forget_msg_with_est(c, message) ==
    /\ CanCall(c)
    /\ Post(c, "fire_and_forget_msg_with_est", message.session_id, message.handle_id,
            0, FALSE,
            Url("janus/{sid}/{hid}", message.session_id, message.handle_id, 0),
            message_est_json(message.body, message.protocol))

\* the request builder of this method is given no timeout (lines 374-383)
send_msg_waiton_ack_with_est(c, message) ==
    /\ CanCall(c)
    /\ Post(c, "send_msg_waiton_ack_with_est", message.session_id, message.handle_id,
            message.timeout, FALSE,
            Url("janus/{sid}/{hid}", message.session_id, message.handle_id, 0),
            message_est_json(message.body, message.protocol))

\* HandleMessage, HandleMessageWithTimeout, and the two with an establishment
HandleMessages ==
    [session_id : Sessions, handle_id : Handles, body : Bodies]
HandleMessagesWithTimeout ==
    [session_id : Sessions, handle_id : Handles, body : Bodies, timeout : Timeouts]
HandleMessagesWithEstablishment ==
    [session_id : Sessions, handle_id : Handles, body : Bodies, protocol : Protocols]
HandleMessagesWithEstablishmentAndTimeout ==
    [session_id : Sessions, handle_id : Handles, body : Bodies, protocol : Protocols,
     timeout : Timeouts]

-----------------------------------------------------------------------------
(* Calls: how the awaited HTTP exchange ends *)

Finish(c, res) ==
    /\ pc' = [pc EXCEPT ![c] = "done"]
    /\ result' = [result EXCEPT ![c] = res]

(* .timeout(timeout) of the request builder: when the caller's deadline    *)
(* elapses before the response has arrived, the awaited send fails. A      *)
(* request built without .timeout() has no timer.                          *)
send_timeout(c) ==
    /\ ~Returned
    /\ pc[c] = "send"
    /\ call[c].armed
    /\ Finish(c, Err("Timeout"))
    /\ UNCHANGED <<apisecret, txgen, alive, tasks, idle_state, call, task, nops>>

\* the caller has taken the returned value: the call is over
retire(c) ==
    /\ pc[c] = "done"
    /\ pc' = [pc EXCEPT ![c] = "idle"]
    /\ call' = [call EXCEPT ![c] = NoCall]
    /\ result' = [result EXCEPT ![c] = NoRes]
    /\ UNCHANGED <<apisecret, txgen, alive, tasks, idle_state, task, nops>>

\* .send().await? fails at the network level
send_err(c) ==
    /\ ~Returned
    /\ pc[c] = "send"
    /\ Finish(c, Err("Transport"))
    /\ UNCHANGED <<apisecret, txgen, alive, tasks, idle_state, call, task, nops>>

\* .json::<JaResponse>().await? fails: the body is no JaResponse
json_err(c) ==
    /\ ~Returned
    /\ pc[c] = "send"
    /\ ReadsBody(call[c].op)
    /\ Finish(c, Err("Decode"))
    /\ UNCHANGED <<apisecret, txgen, alive, tasks, idle_state, call, task, nops>>

\* http_response storing the reply in the response cache under its transaction
http_response_caching(c, response) ==
    /\ ~Returned
    /\ pc[c] = "send"
    /\ response \in ServerReplies(call[c].op, call[c].tx, call[c].hid)
    /\ ~(call[c].op = "attach" /\ attach_match(response).ok)
    /\ call' = [call EXCEPT ![c].reply = IF ReadsBody(call[c].op) THEN response ELSE NoRsp]
    /\ rsp_map' = Append(rsp_map, response.transaction)
    /\ Finish(c, OnResponse(call[c].op, response))
    /\ UNCHANGED <<apisecret, txgen, alive, tasks, router, transaction_manager, task, nops>>

\* the HTTP response arrives and the method returns (every method but a
\* successful attach)
http_response(c, response) ==
    /\ ~Returned
    /\ pc[c] = "send"
    /\ response \in ServerReplies(call[c].op, call[c].tx, call[c].hid)
    /\ ~(call[c].op = "attach" /\ attach_match(response).ok)
    /\ call' = [call EXCEPT ![c].reply = IF ReadsBody(call[c].op) THEN response ELSE NoRsp]
    /\ Finish(c, OnResponse(call[c].op, response))
    /\ UNCHANGED <<apisecret, txgen, alive, tasks, idle_state, task, nops>>

-----------------------------------------------------------------------------
(* attach after a Success reply: the long-poll task *)

\* the maxev parameter of the long-poll URL
maxev == 5

\* the long-poll URL without the session of the attach
long_poll_url_root(session_id) == Url("janus/{sid}?maxev", 0, 0, maxev)

\* format!("{baseurl}/janus/{session_id}?maxev=5")
long_poll_url(session_id) == Url("janus/{sid}?maxev", session_id, 0, maxev)

\* jarust_rt::spawn of the long-poll loop with the sender half of the channel
spawn(session_id, handle_id) ==
    [sid |-> session_id, hid |-> handle_id, state |-> "running",
     url |-> long_poll_url(session_id), sink |-> <<>>, got |-> <<>>,
     rxAlive |-> TRUE, handed |-> FALSE, failed |-> FALSE]

\* attach, lines 183-220: the handle id of the reply, the channel, the spawn;
\* the method then awaits the lock of Exclusive
attach_response(c, response) ==
    /\ ~Returned
    /\ pc[c] = "send"
    /\ call[c].op = "attach"
    /\ response \in ServerReplies(call[c].op, call[c].tx, call[c].hid)
    /\ attach_match(response).ok
    /\ task' = Append(task, spawn(call[c].sid, attach_match(response).id))
    /\ call' = [call EXCEPT ![c].reply = response, ![c].tid = Len(task) + 1]
    /\ pc' = [pc EXCEPT ![c] = "lock"]
    /\ UNCHANGED <<apisecret, txgen, alive, tasks, idle_state, result, nops>>

\* a push that loses the tasks pushed before
push_replace(ts, handle) == <<handle>>

\* Exclusive.tasks after tasks.push(handle)
push(ts, handle) == Append(ts, handle)

\* attach, lines 221-223: push under the lock, return (handle_id, rx)
attach_push(c) ==
    /\ ~Returned
    /\ pc[c] = "lock"
    /\ tasks' = push(tasks, call[c].tid)
    /\ task' = [task EXCEPT ![call[c].tid].handed = TRUE]
    /\ Finish(c, OkId(task[call[c].tid].hid))
    /\ UNCHANGED <<apisecret, txgen, alive, idle_state, call, nops>>

\* the loop sending only the last item of the array
forward_latest(sink, open, res) ==
    IF res = <<>> \/ ~open THEN sink ELSE Append(sink, res[Len(res)])

\* for r in res { let _ = tx.send(r); }: the channel after the loop
RECURSIVE forward(_, _, _)
forward(sink, open, res) ==
    IF res = <<>>
    THEN sink
    ELSE forward(IF open THEN Append(sink, Head(res)) ELSE sink, open, Tail(res))

Running(t) == ~Returned /\ t \in DOMAIN task /\ task[t].state = "running"

(* One iteration of the loop: the GET, the decoding of its body and the    *)
(* forwarding of the items.                                                *)

\* the if let Ok(..) of the iteration does not match: nothing is sent and
\* the loop starts over; failed notes that a GET of the task has failed
retry(t) ==
    /\ task' = [task EXCEPT ![t].failed = TRUE]
    /\ UNCHANGED <<apisecret, txgen, alive, tasks, idle_state, pc, call, result, nops>>

\* the loop ending on a GET that fails
poll_send_err_leaving(t) ==
    /\ Running(t)
    /\ task' = [task EXCEPT ![t].failed = TRUE, ![t].state = "ended"]
    /\ UNCHANGED <<apisecret, txgen, alive, tasks, idle_state, pc, call, result, nops>>

\* client.get(url).send().await fails
poll_send_err(t) ==
    /\ Running(t)
    /\ retry(t)

\* response.json::<Vec<JaResponse>>().await fails
poll_json_err(t) ==
    /\ Running(t)
    /\ retry(t)

\* the number of events the server has handed out so far
RECURSIVE Handed(_)
Handed(n) == IF n = 0 THEN 0 ELSE Len(task[n].got) + Handed(n - 1)

\* the loop breaking when tx.send fails because the receiver is gone
poll_json_ok_breaking(t, res) ==
    /\ Running(t)
    /\ res \in EventArrays(task[t].sid)
    /\ Handed(Len(task)) + Len(res) <= MaxEvents
    /\ task' = [task EXCEPT ![t].sink = forward(@, task[t].rxAlive, res),
                            ![t].got = @ \o res,
                            ![t].state = IF res # <<>> /\ ~task[t].rxAlive
                                         THEN "ended" ELSE @]
    /\ UNCHANGED <<apisecret, txgen, alive, tasks, idle_state, pc, call, result, nops>>

\* the body decodes to an array: every item is sent, then the loop starts over
poll_json_ok(t, res) ==
    /\ Running(t)
    /\ res \in EventArrays(task[t].sid)
    /\ Handed(Len(task)) + Len(res) <= MaxEvents
    /\ task' = [task EXCEPT ![t].sink = forward(@, task[t].rxAlive, res),
                            ![t].got = @ \o res]
    /\ UNCHANGED <<apisecret, txgen, alive, tasks, idle_state, pc, call, result, nops>>

\* the caller drops the receiver attach returned
receiver_drop(t) ==
    /\ ~Returned
    /\ t \in DOMAIN task
    /\ task[t].handed
    /\ task[t].rxAlive
    /\ task' = [task EXCEPT ![t].rxAlive = FALSE]
    /\ UNCHANGED <<apisecret, txgen, alive, tasks, idle_state, pc, call, result, nops>>

-----------------------------------------------------------------------------
(* Drop *)

\* drop cancelling only the first task of the list
drop_first(ts, tk) ==
    IF ts = <<>> THEN tk ELSE [tk EXCEPT ![Head(ts)].state = "cancelled"]

\* impl Drop for Exclusive: task.cancel() for every task drained from the list
RECURSIVE drop(_, _)
drop(ts, tk) ==
    IF ts = <<>>
    THEN tk
    ELSE drop(Tail(ts), [tk EXCEPT ![Head(ts)].state = "cancelled"])

(* The last clone of the interface is dropped. Every call borrows the      *)
(* interface for as long as it runs, so no call is in flight.              *)
drop_interface ==
    /\ alive
    /\ \A c \in Callers : pc[c] = "idle"
    /\ alive' = FALSE
    /\ task' = drop(tasks, task)
    /\ tasks' = <<>>
    /\ UNCHANGED <<apisecret, txgen, idle_state, pc, call, result, nops>>

-----------------------------------------------------------------------------

Next ==
    \/ \E c \in General, timeout \in Timeouts : create(c, timeout)
    \/ \E c \in General, timeout \in Timeouts : server_info(c, timeout)
    \/ \E c \in Callers, sid \in Sessions, plugin \in Plugins, timeout \in Timeouts :
          attach(c, sid, plugin, timeout)
    \/ \E c \in General, sid \in Sessions, timeout \in Timeouts : keep_alive(c, sid, timeout)
    \/ \E c \in General, sid \in Sessions, timeout \in Timeouts : destory(c, sid, timeout)
    \/ \E c \in General, m \in HandleMessages : fire_and_forget_msg(c, m)
    \/ \E c \in General, m \in HandleMessagesWithTimeout : send_msg_waiton_ack(c, m)
    \/ \E c \in General, m \in HandleMessagesWithTimeout : internal_send_msg_waiton_rsp(c, m)
    \/ \E c \in General, m \in HandleMessagesWithEstablishment :
          fire_and_forget_msg_with_est(c, m)
    \/ \E c \in General, m \in HandleMessagesWithEstablishmentAndTimeout :
          send_msg_waiton_ack_with_est(c, m)
    \/ \E c \in Callers : retire(c)
    \/ \E c \in Callers : send_timeout(c)
    \/ \E c \in Callers : send_err(c)
    \/ \E c \in Callers : json_err(c)
    \/ \E c \in Callers : \E r \in ServerReplies(call[c].op, call[c].tx, call[c].hid) :
          http_response(c, r)
    \/ \E c \in Callers : \E r \in ServerReplies(call[c].op, call[c].tx, call[c].hid) :
          attach_response(c, r)
    \/ \E c \in Callers : attach_push(c)
    \/ \E t \in DOMAIN task : poll_send_err(t)
    \/ \E t \in DOMAIN task : poll_json_err(t)
    \/ \E t \in DOMAIN task : \E res \in EventArrays(task[t].sid) : poll_json_ok(t, res)
    \/ \E t \in DOMAIN task : receiver_drop(t)
    \/ drop_interface

Spec == Init /\ [][Next]_vars

-----------------------------------------------------------------------------
(* Helpers of the properties *)

Range(seq) == {seq[i] : i \in DOMAIN seq}

IsPrefix(a, b) == Len(a) <= Len(b) /\ a = SubSeq(b, 1, Len(a))

Done(c, op) == pc[c] = "done" /\ call[c].op = op

\* the operations that send a message to a handle
MessageOps ==
    {"fire_and_forget_msg", "send_msg_waiton_ack", "internal_send_msg_waiton_rsp",
     "fire_and_forget_msg_with_est", "send_msg_waiton_ack_with_est"}

\* the request holds the body and the payload under the key of its protocol only
CarriesEstablishment(request, body, protocol) ==
    LET key == IF protocol.kind = "JSEP" THEN "jsep" ELSE "rtp"
        other == IF protocol.kind = "JSEP" THEN "rtp" ELSE "jsep"
    IN  /\ "body" \in DOMAIN request
        /\ request["body"] = body
        /\ key \in DOMAIN request
        /\ request[key] = protocol.payload
        /\ other \notin DOMAIN request

\* the next iteration of the loop of task t can take place
NextGetIssued(t) == ENABLED poll_json_ok(t, <<>>)

-----------------------------------------------------------------------------
(* C1: every event that carries a sender is delivered to the receiver of   *)
(* the handle whose id is that sender, and to the receiver of no other     *)
(* handle.                                                                 *)
C1_SenderRouting ==
    \A t \in DOMAIN task : \A i \in DOMAIN task[t].sink :
        task[t].sink[i].sender = task[t].hid

(* C2: the items of every decoded long-poll array reach the receiver of    *)
(* the task's handle, none dropped, none duplicated, in array order, the   *)
(* items of an earlier poll before those of a later poll: the channel      *)
(* holds exactly the concatenation of the arrays, for as long as the       *)
(* receiver lives.                                                         *)
C2_FanOutInOrder ==
    \A t \in DOMAIN task :
        /\ task[t].rxAlive => task[t].sink = task[t].got
        /\ IsPrefix(task[t].sink, task[t].got)

\* two polls of one task, of one and of two items, all delivered
C2_Witness ==
    \E t \in DOMAIN task :
        /\ task[t].rxAlive
        /\ Len(task[t].sink) = 3
        /\ task[t].sink[1].janus = "event"
        /\ task[t].sink[3].janus = "hangup"

(* C3: once the transport is dropped every long-poll task of an earlier    *)
(* attach is cancelled; while it lives, every spawned task is in the task  *)
(* list or belongs to an attach that is about to push it.                  *)
C3_DropCancelsEveryTask ==
    /\ ~alive => \A t \in DOMAIN task : task[t].state = "cancelled"
    /\ alive => \A t \in DOMAIN task :
                    \/ t \in Range(tasks)
                    \/ \E c \in Callers : pc[c] = "lock" /\ call[c].tid = t

\* the transport was dropped after two successful attach calls
C3_Witness ==
    /\ ~alive
    /\ Len(task) = 2
    /\ \A t \in DOMAIN task : task[t].handed /\ task[t].state = "cancelled"

(* C4: an Error reply {code, reason} to create, attach or a send_waiton    *)
(* call makes the call return JanusError{code, reason}, never Ok.          *)
C4_ErrorMapping ==
    \A c \in Callers :
        ( /\ pc[c] = "done"
          /\ call[c].op \in {"create", "attach", "send_msg_waiton_ack",
                             "internal_send_msg_waiton_rsp",
                             "send_msg_waiton_ack_with_est"}
          /\ call[c].reply.janus = "error" )
        => result[c] = JanusError(call[c].reply.code, call[c].reply.reason)

(* C5: a value returned by send_waiton_rsp is a terminal reply, never an   *)
(* Ack.                                                                    *)
C5_RspIsTerminal ==
    \A c \in Callers :
        (Done(c, "internal_send_msg_waiton_rsp") /\ result[c].ok)
        => result[c].rsp.janus # "ack"

(* C6: destroy is best-effort: it returns Ok(()) also when the transport   *)
(* fails or times out while sending the request.                           *)
C6_DestroyBestEffort ==
    \A c \in Callers : Done(c, "destory") => result[c] = OkUnit

(* C7: a call that was given a timeout and whose server stays silent ends  *)
(* with a timeout error at its deadline: while it awaits the response, the *)
(* step that fails it with Timeout is possible.                            *)
C7_TimeoutEnforced ==
    \A c \in Callers :
        (~Returned /\ pc[c] = "send" /\ call[c].timeout > 0) => ENABLED send_timeout(c)

(* C8 as stated: the value returned by send_waiton_ack carries the         *)
(* transaction stamped on the request, whatever the server replied.        *)
C8_TransactionAlwaysEchoed ==
    \A c \in Callers :
        (Done(c, "send_msg_waiton_ack") /\ result[c].ok)
        => result[c].rsp.transaction = call[c].tx

(* C8 amended: the value returned by send_waiton_ack is the body of the    *)
(* HTTP response to that call, unchanged; its transaction is the one       *)
(* stamped on the request whenever the server echoed it.                   *)
C8_ReturnsReplyVerbatim ==
    \A c \in Callers :
        (Done(c, "send_msg_waiton_ack") /\ result[c].ok)
        => /\ result[c].rsp = call[c].reply
           /\ call[c].reply.transaction = call[c].tx
                  => result[c].rsp.transaction = call[c].tx

\* send_waiton_ack returned an Ack that echoes the request's transaction
C8_Witness ==
    \E c \in Callers :
        /\ Done(c, "send_msg_waiton_ack")
        /\ result[c].ok
        /\ result[c].rsp.janus = "ack"
        /\ call[c].tx # ""
        /\ result[c].rsp.transaction = call[c].tx

(* C9 as stated: every request emitted by any operation, server_info       *)
(* included, contains a transaction field.                                 *)
C9_EveryRequestStamped ==
    \A c \in Callers :
        call[c].method # ""
        => /\ "transaction" \in DOMAIN call[c].request
           /\ call[c].request["transaction"] = call[c].tx

(* C9 amended: every POST (create, attach, destroy, the fire_and_forget    *)
(* and send_waiton variants) contains one transaction field, the token of  *)
(* a generator call made for that request; the GET of server_info has no   *)
(* body, no transaction, and calls no generator.                           *)
C9_PostsStampedFresh ==
    [][\A c \in Callers :
          (pc[c] # "send" /\ pc'[c] = "send")
          => IF call'[c].method = "POST"
             THEN /\ txgen' = txgen + 1
                  /\ call'[c].tx = Token(txgen')
                  /\ "transaction" \in DOMAIN call'[c].request
                  /\ call'[c].request["transaction"] = call'[c].tx
             ELSE /\ txgen' = txgen
                  /\ call'[c].op = "server_info"
                  /\ call'[c].request = EmptyObj]_vars

\* a second POST is in flight, stamped with the second token
C9_Witness ==
    \E c \in Callers :
        /\ pc[c] = "send"
        /\ call[c].method = "POST"
        /\ txgen = 2
        /\ call[c].request["transaction"] = Token(2)

(* C10 as stated: with or without an api secret, removing the transaction  *)
(* field from the stamped request yields the caller's original request.    *)
C10_RoundTrip ==
    \A c \in Callers :
        call[c].method = "POST"
        => RemoveKey(call[c].request, "transaction") = call[c].json

(* C10 amended: removing the transaction field from the stamped request    *)
(* yields the original request when no api secret is configured, and the   *)
(* original request with the secret under apisecret when one is.           *)
C10_RoundTripModuloSecret ==
    \A c \in Callers :
        call[c].method = "POST"
        => RemoveKey(call[c].request, "transaction")
             = IF apisecret = <<>>
               THEN call[c].json
               ELSE SetKey(call[c].json, "apisecret", apisecret[1])

\* a message with an establishment was stamped, with and without a secret
C10_Witness ==
    \E c \in Callers :
        /\ call[c].method = "POST"
        /\ "jsep" \in DOMAIN call[c].json
        /\ apisecret = <<>>
        /\ RemoveKey(call[c].request, "transaction") = call[c].json

(* C11: keep_alive is a no-op: whatever the session id and the timeout, it *)
(* returns Ok(()) at once, emits no request, takes no transaction from the *)
(* generator and leaves the task list, the tasks, the router, the          *)
(* transaction manager and the response cache as they were.                *)
C11_KeepAliveNoOp ==
    [][\A c \in Callers :
          (pc[c] = "idle" /\ call'[c].op = "keep_alive")
          => /\ pc'[c] = "done"
             /\ result'[c] = OkUnit
             /\ call'[c].method = ""
             /\ call'[c].request = EmptyObj
             /\ txgen' = txgen
             /\ tasks' = tasks
             /\ task' = task
             /\ router' = router
             /\ transaction_manager' = transaction_manager
             /\ rsp_map' = rsp_map]_vars

\* keep_alive of session 2 has returned while a long-poll task is registered
C11_Witness ==
    \E c \in Callers :
        /\ Done(c, "keep_alive")
        /\ call[c].sid = 2
        /\ result[c] = OkUnit
        /\ Len(tasks) = 1

(* C12: the response cache never holds more entries than its capacity; no  *)
(* operation of the transport and no long-poll task inserts into the       *)
(* response cache or into the transaction manager: both stay empty.        *)
C12_CachesStayEmpty ==
    /\ \A capacity \in Capacities : Len(rsp_map) <= capacity
    /\ rsp_map = <<>>
    /\ transaction_manager = <<>>

\* an attach and a send_waiton_ack have returned Ok and a poll has delivered
C12_Witness ==
    /\ rsp_map = <<>>
    /\ transaction_manager = <<>>
    /\ \E c \in Callers : Done(c, "send_msg_waiton_ack") /\ result[c].ok
    /\ \E t \in DOMAIN task : task[t].handed /\ task[t].sink # <<>>

(* C13: the long-poll loop survives failures: a GET that fails at the      *)
(* network level or whose body does not decode delivers nothing and does   *)
(* not end the task, the next GET is issued, and the items of every        *)
(* successful poll, later ones included, are delivered: after a failure    *)
(* the task runs for as long as the transport lives and its channel still  *)
(* holds exactly the arrays decoded.                                       *)
C13_LoopSurvivesFailures ==
    \A t \in DOMAIN task :
        task[t].failed
        => /\ alive => task[t].state = "running"
           /\ (task[t].state = "running" /\ ~Returned) => NextGetIssued(t)
           /\ task[t].rxAlive => task[t].sink = task[t].got
           /\ IsPrefix(task[t].sink, task[t].got)

\* a task whose GET has failed runs on, three items delivered to its receiver
C13_Witness ==
    \E t \in DOMAIN task :
        /\ task[t].failed
        /\ alive
        /\ task[t].state = "running"
        /\ task[t].rxAlive
        /\ Len(task[t].sink) = 3

(* C14: the request of fire_and_forget_with_est and of                     *)
(* send_waiton_ack_with_est holds the caller's body under body and the     *)
(* payload under exactly one of jsep and rtp: jsep when the protocol is    *)
(* JSEP, rtp when it is RTP, never both, never neither.                    *)
C14_ExactlyOneEstablishment ==
    [][\A c \in Callers :
          /\ \A m \in HandleMessagesWithEstablishment :
                fire_and_forget_msg_with_est(c, m)
                => CarriesEstablishment(call'[c].request, m.body, m.protocol)
          /\ \A m \in HandleMessagesWithEstablishmentAndTimeout :
                send_msg_waiton_ack_with_est(c, m)
                => CarriesEstablishment(call'[c].request, m.body, m.protocol)]_vars

\* a send_waiton_ack_with_est of an RTP payload is in flight
C14_Witness ==
    \E c \in Callers :
        /\ pc[c] = "send"
        /\ call[c].op = "send_msg_waiton_ack_with_est"
        /\ call[c].request["body"] = "b1"
        /\ "rtp" \in DOMAIN call[c].request
        /\ "jsep" \notin DOMAIN call[c].request

(* C15: with an api secret configured every request object sent carries it *)
(* under apisecret, and the transaction stamped after it is the one of the *)
(* request; with none configured no request carries an apisecret field.    *)
(* The GET of server_info sends no object.                                 *)
C15_SecretOnEveryRequest ==
    \A c \in Callers :
        /\ call[c].method = "POST"
           => /\ "transaction" \in DOMAIN call[c].request
              /\ call[c].request["transaction"] = call[c].tx
              /\ IF apisecret = <<>>
                 THEN "apisecret" \notin DOMAIN call[c].request
                 ELSE /\ "apisecret" \in DOMAIN call[c].request
                      /\ call[c].request["apisecret"] = apisecret[1]
        /\ call[c].method # "POST" => call[c].request = EmptyObj

\* a destroy request is in flight with the configured secret in it
C15_Witness ==
    \E c \in Callers :
        /\ pc[c] = "send"
        /\ call[c].op = "destory"
        /\ apisecret = <<"s3cr3t">>
        /\ call[c].request["apisecret"] = "s3cr3t"

(* C16: create posts to /janus, attach and destroy to /janus/{sid} of the  *)
(* caller's session, every message operation to /janus/{sid}/{hid} of the  *)
(* message's session and handle, server_info GETs /janus/info, and the     *)
(* long-poll task of an attach GETs /janus/{sid}?maxev=N of the session of *)
(* that attach.                                                            *)
C16_Endpoints ==
    /\ \A c \in Callers :
          LET k == call[c]
          IN  /\ k.op = "create"
                 => k.method = "POST" /\ k.url = Url("janus", 0, 0, 0)
              /\ k.op \in {"attach", "destory"}
                 => k.method = "POST" /\ k.url = Url("janus/{sid}", k.sid, 0, 0)
              /\ k.op \in MessageOps
                 => k.method = "POST" /\ k.url = Url("janus/{sid}/{hid}", k.sid, k.hid, 0)
              /\ k.op = "server_info"
                 => k.method = "GET" /\ k.url = Url("janus/info", 0, 0, 0)
              /\ (k.op = "attach" /\ k.tid # 0) => task[k.tid].url.sid = k.sid
    /\ \A t \in DOMAIN task :
          /\ task[t].url.path = "janus/{sid}?maxev"
          /\ task[t].url.sid = task[t].sid
          /\ task[t].url.maxev = maxev

\* a message to handle 11 of session 1 is in flight while a task polls session 2
C16_Witness ==
    \E c \in Callers : \E t \in DOMAIN task :
        /\ pc[c] = "send"
        /\ call[c].op = "fire_and_forget_msg"
        /\ call[c].url = Url("janus/{sid}/{hid}", 1, 11, 0)
        /\ task[t].url = Url("janus/{sid}?maxev", 2, 0, 5)

(* C17: a failed attach has no side effect: the step in which attach       *)
(* returns an error spawns no task, leaves the task list and the tasks     *)
(* unchanged and hands out no receiver, and that attach had spawned none;  *)
(* a task is spawned only by an attach whose reply is Success with         *)
(* data.id, for that handle id and the session of the attach.              *)
C17_FailedAttachNoSideEffect ==
    [][/\ \A c \in Callers :
            (call[c].op = "attach" /\ pc[c] # "done" /\ pc'[c] = "done")
            => IF result'[c].ok
               THEN pc[c] = "lock"
               ELSE /\ pc[c] = "send"
                    /\ call[c].tid = 0
                    /\ task' = task
                    /\ tasks' = tasks
       /\ Len(task') > Len(task)
          => \E c \in Callers :
                /\ call[c].op = "attach"
                /\ pc[c] = "send"
                /\ call'[c].reply.janus = "success"
                /\ call'[c].reply.proto = "data"
                /\ Len(task') = Len(task) + 1
                /\ task'[Len(task')].hid = call'[c].reply.id
                /\ task'[Len(task')].sid = call[c].sid]_vars

\* an attach answered by Success with plugindata has failed after another
\* attach succeeded: one task, one entry in the list
C17_Witness ==
    \E c \in Callers :
        /\ Done(c, "attach")
        /\ ~result[c].ok
        /\ call[c].reply.janus = "success"
        /\ Len(task) = 1
        /\ Len(tasks) = 1

(* C18: while the transport lives the task list holds exactly one entry    *)
(* per attach that has returned Ok, each task once: it grows by one with   *)
(* every successful attach, whatever the interleaving of the calls, and    *)
(* loses none.                                                             *)
C18_OneTaskPerSuccessfulAttach ==
    alive
    => /\ Len(tasks) = Cardinality({t \in DOMAIN task : task[t].handed})
       /\ Range(tasks) = {t \in DOMAIN task : task[t].handed}

\* two concurrent attach calls have pushed in the reverse order of their spawns
C18_Witness ==
    /\ alive
    /\ tasks = <<2, 1>>

(* C19: a long-poll task stops only by cancellation at the drop of the     *)
(* transport: while the transport lives every task runs and issues its     *)
(* next GET, also after its receiver was dropped and forwarding failed,    *)
(* and after the session it polls was destroyed.                           *)
C19_OnlyDropStopsTask ==
    \A t \in DOMAIN task :
        /\ task[t].state \in {"running", "cancelled"}
        /\ task[t].state = "cancelled" => ~alive
        /\ (task[t].state = "running" /\ ~Returned) => NextGetIssued(t)

\* destroy of a session has returned Ok while a task of that session, whose
\* receiver was dropped before items arrived, is still running
C19_Witness ==
    \E c \in Callers : \E t \in DOMAIN task :
        /\ Done(c, "destory")
        /\ result[c] = OkUnit
        /\ task[t].sid = call[c].sid
        /\ ~task[t].rxAlive
        /\ Len(task[t].got) > Len(task[t].sink)
        /\ task[t].state = "running"

(* C20: create and attach return the id of a Success reply with data.id    *)
(* and UnexpectedResponse for every reply that is neither that nor Error;  *)
(* server_info returns the ServerInfo reply and IncompletePacket for every *)
(* reply that is neither ServerInfo nor Error; none returns Ok for a reply *)
(* of another shape.                                                       *)
C20_ReplyShapeChecked ==
    \A c \in Callers :
        LET r == call[c].reply
        IN  /\ (pc[c] = "done" /\ call[c].op \in {"create", "attach"} /\ r # NoRsp)
               => /\ result[c].ok <=> (r.janus = "success" /\ r.proto = "data")
                  /\ result[c].ok => result[c] = OkId(r.id)
                  /\ (~result[c].ok /\ r.janus # "error")
                     => result[c] = Err("UnexpectedResponse")
            /\ (pc[c] = "done" /\ call[c].op = "server_info" /\ r # NoRsp)
               => /\ result[c].ok <=> r.janus = "server_info"
                  /\ result[c].ok => result[c] = OkRsp(r)
                  /\ (~result[c].ok /\ r.janus # "error")
                     => result[c] = Err("IncompletePacket")

\* create answered by an Event has returned UnexpectedResponse
C20_Witness ==
    \E c \in Callers :
        /\ Done(c, "create")
        /\ call[c].reply.janus = "event"
        /\ result[c] = Err("UnexpectedResponse")

====
